---- MODULE Spec2Model ----
(***************************************************************************)
(* Model of transfer_learning.ipynb: the three model builders              *)
(* (create_scratch_model, create_finetune_model, create_frozen_model),     *)
(* train(model, solver, lr) and the solver / learning-rate sweep loop.     *)
(*                                                                         *)
(* Python values are records tagged by "kind".  A solver name is a tuple   *)
(* of one-character strings so that str.lower() is computed, not assumed.  *)
(* A learning rate is an integer number of 1e-4 units (5e-4 is 5).         *)
(* The floats inside a keras History (loss, val_loss, ...) are not          *)
(* modelled: History keeps the model it was fitted on and its epoch list.  *)
(***************************************************************************)
EXTENDS Integers, Sequences, FiniteSets, TLC

VARIABLES
    solvers,         \* notebook global `solvers`
    learning_rates,  \* notebook global `learning_rates`
    caller,          \* who calls train: "sweep" (the loop) or "harness" (a direct caller)
    pc,              \* position of the running cell
    si, li,          \* positions of the two for-loops in solvers / learning_rates
    solver, lr,      \* loop variables `solver`, `lr`
    model,           \* notebook global `model`, also train's parameter (same object)
    built,           \* per builder: the Model object it last constructed in its body
    origin,          \* the builder whose return value `model` holds ("" before any call)
    frame,           \* train's activation: its parameters solver, lr, local result, return value
    results,         \* notebook global `results`
    stdout,          \* lines printed by the loop
    trainCalls,      \* history of train invocations: <<solver, lr, model>> at entry
    raised           \* the exception that left the cell, or NoExc

vars == <<solvers, learning_rates, caller, pc, si, li, solver, lr, model, built,
          origin, frame, results, stdout, trainCalls, raised>>

----------------------------------------------------------------------------
(* Bounds of the model *)

MaxSolvers == 2
MaxLrs == 2
NBase == 2

(* Program constants *)

Epochs == 2
NumClasses == 133
DenseUnits == 512
ImgSize == 224
Momentum == 9
LR_1e3 == 10
LR_5e4 == 5
LR_1e4 == 1

----------------------------------------------------------------------------
(* Strings and str.lower() *)

S_sgd == <<"s", "g", "d">>
S_nesterov == <<"n", "e", "s", "t", "e", "r", "o", "v">>
S_adam == <<"a", "d", "a", "m">>
S_SGD == <<"S", "G", "D">>
S_Nesterov == <<"N", "e", "s", "t", "e", "r", "o", "v">>
S_Adam == <<"A", "d", "a", "m">>
S_rmsprop == <<"r", "m", "s", "p", "r", "o", "p">>

LowerChar(c) ==
    CASE c = "S" -> "s"
      [] c = "G" -> "g"
      [] c = "D" -> "d"
      [] c = "N" -> "n"
      [] c = "A" -> "a"
      [] OTHER -> c

lower(s) == [i \in 1..Len(s) |-> LowerChar(s[i])]

----------------------------------------------------------------------------
(* Python / keras values *)

Undefined == [kind |-> "undefined"]
PyNone == [kind |-> "None"]
NoExc == [kind |-> "none"]
Exc(type, at) == [kind |-> "exception", type |-> type, at |-> at]
NoFrame == [kind |-> "noframe"]
NoOptimizer == [kind |-> "NoOptimizer"]

InputShape == <<ImgSize, ImgSize, 3>>

InceptionV3(weights) ==
    [arch |-> "InceptionV3", include_top |-> FALSE, weights |-> weights,
     input_shape |-> InputShape, trainable |-> [i \in 1..NBase |-> TRUE]]

HeadLayers ==
    << [type |-> "GlobalAveragePooling2D", units |-> 0, activation |-> "none",
        trainable |-> TRUE],
       [type |-> "Dense", units |-> DenseUnits, activation |-> "relu",
        trainable |-> TRUE],
       [type |-> "Dense", units |-> NumClasses, activation |-> "softmax",
        trainable |-> TRUE] >>

Model(base, head) ==
    [kind |-> "Model", base |-> base, head |-> head, optimizer |-> NoOptimizer,
     loss |-> "none", epochs_fit |-> 0]

FreezeBase(m) ==
    [m EXCEPT !.base.trainable = [i \in 1..NBase |-> FALSE]]

(* Each builder: `local` is the Model its body constructs, `ret` the value
   the call evaluates to (PyNone when the body ends without a return). *)
create_scratch_model ==
    [local |-> Model(InceptionV3("random"), HeadLayers), ret |-> PyNone]

create_finetune_model ==
    LET m == Model(InceptionV3("imagenet"), HeadLayers)
    IN  [local |-> m, ret |-> m]

(* Mutant: the frozen builder copied from the scratch cell keeps weights=None. *)
create_frozen_model_random ==
    [local |-> FreezeBase(Model(InceptionV3("random"), HeadLayers)), ret |-> PyNone]

create_frozen_model ==
    [local |-> FreezeBase(Model(InceptionV3("imagenet"), HeadLayers)), ret |-> PyNone]

Variants == {"scratch", "finetune", "frozen"}

Create(v) ==
    CASE v = "scratch" -> create_scratch_model
      [] v = "finetune" -> create_finetune_model
      [] v = "frozen" -> create_frozen_model

----------------------------------------------------------------------------
(* Optimizers *)

SGDAccepted == {"lr", "momentum", "decay", "nesterov", "clipnorm", "clipvalue"}
AdamAccepted == {"lr", "beta_1", "beta_2", "epsilon", "decay", "clipnorm", "clipvalue"}

SGDKwargs == {"lr", "momentum"}
NesterovKwargs == {"lr", "momentum", "nesterov"}
AdamKwargs == {"lr", "momentum", "beta_1", "beta_2", "epsilon"}

(* An optimizer constructor: unexpected keyword arguments raise TypeError. *)
NewOptimizer(cls, accepted, kwargs, l, nesterov) ==
    IF kwargs \subseteq accepted
    THEN [kind |-> "Optimizer", cls |-> cls, lr |-> l, momentum |-> Momentum,
          nesterov |-> nesterov]
    ELSE Exc("TypeError", "optimizer")

(* The optimizer expression of the branch train takes for solver s. *)
OptimizerFor(s, l) ==
    CASE lower(s) = S_sgd -> NewOptimizer("SGD", SGDAccepted, SGDKwargs, l, FALSE)
      [] lower(s) = S_nesterov -> NewOptimizer("SGD", SGDAccepted, NesterovKwargs, l, TRUE)
      [] lower(s) = S_adam -> NewOptimizer("Adam", AdamAccepted, AdamKwargs, l, FALSE)
      [] OTHER -> NoOptimizer

----------------------------------------------------------------------------
(* train(model, solver, lr), step by step *)

NewFrame(s, l) ==
    [kind |-> "frame", solver |-> s, lr |-> l, result |-> Undefined, ret |-> <<>>]

(* Mutant: the loop body swallows the exception and goes on with the next pair. *)
Raise_Caught(exc) ==
    /\ raised' = exc
    /\ pc' = IF caller = "sweep" THEN "inner" ELSE "raised"
    /\ li' = li + 1
    /\ frame' = NoFrame
    /\ UNCHANGED <<solvers, learning_rates, caller, si, solver, lr,
                   results, stdout, trainCalls>>

(* An exception nobody catches: the running cell stops where it is. *)
Raise(exc) ==
    /\ raised' = exc
    /\ pc' = "raised"
    /\ UNCHANGED <<solvers, learning_rates, caller, si, li, solver, lr, frame,
                   results, stdout, trainCalls>>

(* The if / elif chain: what compile leaves in the model, or the exception. *)
CompileStep(m, s, l, fail) ==
    IF lower(s) \notin {S_sgd, S_nesterov, S_adam}
    THEN [exc |-> NoExc, model |-> m]
    ELSE IF m.kind # "Model"
    THEN [exc |-> Exc("AttributeError", "compile"), model |-> m]
    ELSE LET opt == OptimizerFor(s, l)
         IN  IF opt.kind = "exception"
             THEN [exc |-> opt, model |-> m]
             ELSE IF fail
             THEN [exc |-> Exc("FrameworkError", "compile"), model |-> m]
             ELSE [exc |-> NoExc,
                   model |-> [m EXCEPT !.optimizer = opt,
                                       !.loss = "categorical_crossentropy"]]

History(m) ==
    [kind |-> "History", model |-> m, epoch |-> [i \in 1..Epochs |-> i - 1]]

(* model.fit: the fitted model and its History, or the exception. *)
FitStep(m, fail) ==
    IF m.kind # "Model"
    THEN [exc |-> Exc("AttributeError", "fit"), model |-> m, result |-> Undefined]
    ELSE IF m.optimizer = NoOptimizer
    THEN [exc |-> Exc("RuntimeError", "fit"), model |-> m, result |-> Undefined]
    ELSE IF fail
    THEN [exc |-> Exc("FrameworkError", "fit"), model |-> m, result |-> Undefined]
    ELSE LET fitted == [m EXCEPT !.epochs_fit = @ + Epochs]
         IN  [exc |-> NoExc, model |-> fitted, result |-> History(fitted)]

(* Mutant: train hands back the normalised solver name. *)
ReturnValue_Lowered(s, l, result) == <<lower(s), l, result>>

ReturnValue(s, l, result) == <<s, l, result>>

TrainCompile ==
    /\ pc = "train_compile"
    /\ \E fail \in BOOLEAN :
         LET out == CompileStep(model, frame.solver, frame.lr, fail)
         IN  IF out.exc # NoExc
             THEN Raise(out.exc) /\ UNCHANGED <<model, built, origin>>
             ELSE /\ model' = out.model
                  /\ pc' = "train_fit"
                  /\ UNCHANGED <<solvers, learning_rates, caller, si, li, solver, lr,
                                 built, origin, frame, results, stdout, trainCalls, raised>>

TrainFit ==
    /\ pc = "train_fit"
    /\ \E fail \in BOOLEAN :
         LET out == FitStep(model, fail)
         IN  IF out.exc # NoExc
             THEN Raise(out.exc) /\ UNCHANGED <<model, built, origin>>
             ELSE /\ model' = out.model
                  /\ frame' = [frame EXCEPT !.result = out.result]
                  /\ pc' = "train_return"
                  /\ UNCHANGED <<solvers, learning_rates, caller, si, li, solver, lr,
                                 built, origin, results, stdout, trainCalls, raised>>

TrainReturn ==
    /\ pc = "train_return"
    /\ frame' = [frame EXCEPT !.ret = ReturnValue(frame.solver, frame.lr, frame.result)]
    /\ pc' = "train_returned"
    /\ UNCHANGED <<solvers, learning_rates, caller, si, li, solver, lr, model, built, origin,
                   results, stdout, trainCalls, raised>>

----------------------------------------------------------------------------
(* The sweep loop *)

SweepOuter ==
    /\ pc = "outer"
    /\ IF si > Len(solvers)
       THEN /\ pc' = "done"
            /\ UNCHANGED <<solver, li>>
       ELSE /\ solver' = solvers[si]
            /\ li' = 1
            /\ pc' = "inner"
    /\ UNCHANGED <<solvers, learning_rates, caller, si, lr, model, built, origin, frame,
                   results, stdout, trainCalls, raised>>

SweepInner ==
    /\ pc = "inner"
    /\ IF li > Len(learning_rates)
       THEN /\ si' = si + 1
            /\ pc' = "outer"
            /\ UNCHANGED <<lr, stdout>>
       ELSE /\ lr' = learning_rates[li]
            /\ stdout' = Append(stdout, <<solver, lr'>>)
            /\ pc' = "create"
            /\ UNCHANGED si
    /\ UNCHANGED <<solvers, learning_rates, caller, li, solver, model, built, origin, frame,
                   results, trainCalls, raised>>

(* The builder the loop calls. *)
SweepBuilder == "finetune"

SweepCreate ==
    /\ pc = "create"
    /\ \E fail \in BOOLEAN :
         IF fail
         THEN Raise(Exc("FrameworkError", "InceptionV3")) /\ UNCHANGED <<model, built, origin>>
         ELSE /\ model' = Create(SweepBuilder).ret
              /\ built' = [built EXCEPT ![SweepBuilder] = Create(SweepBuilder).local]
              /\ origin' = SweepBuilder
              /\ pc' = "call_train"
              /\ UNCHANGED <<solvers, learning_rates, caller, si, li, solver, lr, frame,
                             results, stdout, trainCalls, raised>>

SweepCallTrain ==
    /\ pc = "call_train"
    /\ frame' = NewFrame(solver, lr)
    /\ trainCalls' = Append(trainCalls, <<solver, lr, model>>)
    /\ pc' = "train_compile"
    /\ UNCHANGED <<solvers, learning_rates, caller, si, li, solver, lr, model, built, origin,
                   results, stdout, raised>>

SweepAppend ==
    /\ pc = "train_returned"
    /\ caller = "sweep"
    /\ results' = Append(results, frame.ret)
    /\ frame' = NoFrame
    /\ li' = li + 1
    /\ pc' = "inner"
    /\ UNCHANGED <<solvers, learning_rates, caller, si, solver, lr, model, built, origin,
                   stdout, trainCalls, raised>>

----------------------------------------------------------------------------
(* A direct caller of the builders and of train *)

SolverNames == {S_sgd, S_nesterov, S_adam, S_SGD, S_Nesterov, S_Adam, S_rmsprop}
LearningRates == {LR_1e3, LR_5e4, LR_1e4}

HarnessCreate ==
    /\ pc = "idle"
    /\ \E v \in Variants, fail \in BOOLEAN :
         IF fail
         THEN Raise(Exc("FrameworkError", "InceptionV3")) /\ UNCHANGED <<model, built, origin>>
         ELSE /\ model' = Create(v).ret
              /\ built' = [built EXCEPT ![v] = Create(v).local]
              /\ origin' = v
              /\ UNCHANGED <<solvers, learning_rates, caller, pc, si, li, solver, lr,
                             frame, results, stdout, trainCalls, raised>>

HarnessTrain ==
    /\ pc = "idle"
    /\ model # Undefined
    /\ \E s \in SolverNames, l \in LearningRates :
         /\ frame' = NewFrame(s, l)
         /\ trainCalls' = Append(trainCalls, <<s, l, model>>)
    /\ pc' = "train_compile"
    /\ UNCHANGED <<solvers, learning_rates, caller, si, li, solver, lr, model, built, origin,
                   results, stdout, raised>>

----------------------------------------------------------------------------
(* Specifications *)

SweepSolverNames == {S_sgd, S_Nesterov, S_adam, S_rmsprop}

Injective(f) == \A i, j \in DOMAIN f : f[i] = f[j] => i = j

ListsOver(S, n) ==
    {f \in UNION {[1..k -> S] : k \in 0..n} : Injective(f)}

NotBuilt == [v \in Variants |-> Undefined]

InitCommon ==
    /\ si = 1 /\ li = 1
    /\ solver = <<>> /\ lr = 0
    /\ model = Undefined
    /\ built = NotBuilt
    /\ origin = ""
    /\ frame = NoFrame
    /\ results = <<>>
    /\ stdout = <<>>
    /\ trainCalls = <<>>
    /\ raised = NoExc

(* The sweep cell, for the lists the cell may be given. *)
Init ==
    /\ solvers \in ListsOver(SweepSolverNames, MaxSolvers)
    /\ learning_rates \in ListsOver(LearningRates, MaxLrs)
    /\ caller = "sweep"
    /\ pc = "outer"
    /\ InitCommon

Next ==
    \/ SweepOuter
    \/ SweepInner
    \/ SweepCreate
    \/ SweepCallTrain
    \/ TrainCompile
    \/ TrainFit
    \/ TrainReturn
    \/ SweepAppend

Spec == Init /\ [][Next]_vars

(* The builders and train called directly. *)
InitCalls ==
    /\ solvers = <<S_sgd>>
    /\ learning_rates = <<LR_5e4, LR_1e3>>
    /\ caller = "harness"
    /\ pc = "idle"
    /\ InitCommon

NextCalls ==
    \/ HarnessCreate
    \/ HarnessTrain
    \/ TrainCompile
    \/ TrainFit
    \/ TrainReturn

SpecCalls == InitCalls /\ [][NextCalls]_vars

----------------------------------------------------------------------------
(* Vocabulary of the properties *)

KnownSolvers == {S_sgd, S_nesterov, S_adam}

NotebookSolvers == <<S_sgd>>
NotebookLearningRates == <<LR_5e4, LR_1e3>>

(* The (solver, lr) pair the k-th iteration of the nested loops visits. *)
PairAt(k) ==
    LET n == Len(learning_rates)
    IN  <<solvers[((k - 1) \div n) + 1], learning_rates[((k - 1) % n) + 1]>>

(* Pairs the loops have completed when they stand at (si, li). *)
Completed == (si - 1) * Len(learning_rates) + (li - 1)

(* The documented solver an optimizer object stands for. *)
SolverOf(opt) ==
    IF opt.kind # "Optimizer" THEN <<>>
    ELSE IF opt.cls = "Adam" THEN S_adam
    ELSE IF opt.nesterov THEN S_nesterov
    ELSE S_sgd

TrainedWith(entry, s, l) ==
    /\ entry[3].kind = "History"
    /\ entry[3].model.epochs_fit = Epochs
    /\ entry[3].model.optimizer.kind = "Optimizer"
    /\ entry[3].model.optimizer.lr = l
    /\ SolverOf(entry[3].model.optimizer) = lower(s)

IsExtendedInception(m) ==
    /\ m.kind = "Model"
    /\ m.base.arch = "InceptionV3"
    /\ Len(m.head) = 3
    /\ m.head[1].type = "GlobalAveragePooling2D"
    /\ m.head[2].type = "Dense" /\ m.head[2].units = DenseUnits
    /\ m.head[2].activation = "relu"
    /\ m.head[3].type = "Dense" /\ m.head[3].units = NumClasses
    /\ m.head[3].activation = "softmax"

BuiltVariants == {v \in Variants : built[v] # Undefined}

----------------------------------------------------------------------------
(* C1: when the sweep loop finishes without error, results holds one entry
   per (solver, lr) pair of solvers x learning_rates, in solver-major order,
   none missing or repeated, and the first two fields of each entry are the
   solver and learning rate its model was trained with. *)
C1_SweepResults ==
    pc = "done" =>
        /\ Len(results) = Len(solvers) * Len(learning_rates)
        /\ \A k \in DOMAIN results :
             /\ results[k][1] = PairAt(k)[1]
             /\ results[k][2] = PairAt(k)[2]
             /\ TrainedWith(results[k], PairAt(k)[1], PairAt(k)[2])
        /\ \A i \in DOMAIN solvers, j \in DOMAIN learning_rates :
             Cardinality({k \in DOMAIN results :
                            /\ results[k][1] = solvers[i]
                            /\ results[k][2] = learning_rates[j]}) = 1

C1_Witness ==
    /\ pc = "done"
    /\ Len(solvers) = 2 /\ Len(learning_rates) = 2
    /\ solvers[1] = S_Nesterov
    /\ Len(results) = 4

(* C2: each of the three builders hands back to its caller an InceptionV3
   base extended with pooling, a 512-unit relu layer and a num_classes-unit
   softmax layer, which the caller can pass to train. *)
C2_BuildersReturnModel ==
    (caller = "harness" /\ origin \in Variants) =>
        /\ IsExtendedInception(model)
        /\ raised.kind = "exception" => raised.type # "AttributeError"

(* C3 as stated: any two built variants have the same base architecture,
   the same initial weights and the same head; only trainable may differ. *)
C3_OnlyTrainableDiffers ==
    \A a, b \in BuiltVariants :
        /\ built[a].base.arch = built[b].base.arch
        /\ built[a].base.weights = built[b].base.weights
        /\ built[a].head = built[b].head

(* C3 amended: any two built variants have the same base architecture,
   input shape and head layers; their initial weights differ exactly when
   one of the two is the scratch variant (random against ImageNet), and
   their trainable base layers differ exactly when one of the two is the
   frozen variant. *)
C3_Amended ==
    \A a, b \in BuiltVariants :
        /\ built[a].base.arch = built[b].base.arch
        /\ built[a].base.include_top = built[b].base.include_top
        /\ built[a].base.input_shape = built[b].base.input_shape
        /\ built[a].head = built[b].head
        /\ (built[a].base.weights # built[b].base.weights)
             <=> ((a = "scratch") # (b = "scratch"))
        /\ (built[a].base.trainable # built[b].base.trainable)
             <=> ((a = "frozen") # (b = "frozen"))

C3_Witness == BuiltVariants = Variants

(* C4: every model the sweep loop passes to train is the random-weight
   variant, never one initialised with ImageNet weights. *)
C4_SweepTrainsScratch ==
    caller = "sweep" =>
        \A k \in DOMAIN trainCalls :
            /\ trainCalls[k][3].kind = "Model"
            /\ trainCalls[k][3].base.weights = "random"

(* C5: when the sweep loop of the notebook finishes, train has been invoked
   for each of the nine combinations of SGD, Nesterov, Adam with 1e-3, 5e-4,
   1e-4. *)
C5_NineCombinations ==
    (/\ solvers = NotebookSolvers
     /\ learning_rates = NotebookLearningRates
     /\ pc = "done") =>
        \A s \in KnownSolvers, l \in LearningRates :
            \E k \in DOMAIN trainCalls :
                lower(trainCalls[k][1]) = s /\ trainCalls[k][2] = l

(* C6: the model create_frozen_model produces has every base layer frozen
   and every added layer trainable, and that is the model object a
   subsequent train call compiles and fits. *)
C6_FrozenModel ==
    built["frozen"] # Undefined =>
        /\ \A i \in DOMAIN built["frozen"].base.trainable :
             ~built["frozen"].base.trainable[i]
        /\ \A i \in DOMAIN built["frozen"].head : built["frozen"].head[i].trainable
        /\ origin = "frozen" =>
             /\ model.kind = "Model"
             /\ \A i \in DOMAIN model.base.trainable : ~model.base.trainable[i]
             /\ \A i \in DOMAIN model.head : model.head[i].trainable

(* C7: for each of sgd, nesterov, adam (any letter case) and any learning
   rate, train on a model compiles it with the matching optimizer at that
   rate before fit, does not raise while constructing the optimizer, and
   returns (solver, lr, fit result) with solver and lr as passed. *)
C7_TrainKnownSolvers ==
    (/\ caller = "harness"
     /\ frame.kind = "frame"
     /\ lower(frame.solver) \in KnownSolvers
     /\ trainCalls[Len(trainCalls)][3].kind = "Model") =>
        /\ raised # Exc("TypeError", "optimizer")
        /\ pc \in {"train_fit", "train_return", "train_returned"} =>
             /\ model.optimizer.kind = "Optimizer"
             /\ model.optimizer.lr = frame.lr
             /\ SolverOf(model.optimizer) = lower(frame.solver)
        /\ pc = "train_returned" =>
             /\ frame.ret[1] = frame.solver
             /\ frame.ret[2] = frame.lr
             /\ frame.ret[3] = frame.result

(* C8: an exception raised by model construction, compile or fit during the
   sweep is caught by nothing: the sweep stops at that pair, no later pair
   is trained, no entry is appended for the failing pair, and results holds
   exactly the entries of the pairs completed before it, in order. *)
C8_FailurePropagates ==
    (caller = "sweep" /\ raised # NoExc) =>
        /\ pc = "raised"
        /\ si \in DOMAIN solvers /\ li \in DOMAIN learning_rates
        /\ Len(results) = Completed
        /\ \A k \in DOMAIN results :
             /\ results[k][1] = PairAt(k)[1]
             /\ results[k][2] = PairAt(k)[2]
        /\ Len(trainCalls) <= Completed + 1
        /\ \A k \in DOMAIN trainCalls :
             /\ trainCalls[k][1] = PairAt(k)[1]
             /\ trainCalls[k][2] = PairAt(k)[2]

C8_Witness ==
    /\ caller = "sweep"
    /\ raised = Exc("TypeError", "optimizer")
    /\ pc = "raised"
    /\ Len(results) = 2
    /\ si = 2 /\ li = 1
    /\ Len(learning_rates) = 2

====
